---- MODULE Spec2Model ----
(***************************************************************************)
(* Model of the smart-search web component                                 *)
(* (src/src/search/smart-search.ts and src/src/utils/constants.ts).        *)
(*                                                                         *)
(* Strings are sequences of one-character strings, so that lower-casing,   *)
(* trimming, prefix tests and the numeric boundary rule are computed.      *)
(* Time is in milliseconds.  A handler runs to completion in one step.     *)
(***************************************************************************)
EXTENDS Integers, Sequences, FiniteSets, TLC

VARIABLES
    phase,            \* lifecycle: constructed / loading / ready / disconnected
    searchData,       \* this.searchData
    inputValue,       \* this.searchInput.value
    filteredResults,  \* this.filteredResults
    resultItems,      \* number of .result-item elements that carry listeners
    selectedIndex,    \* this.selectedIndex
    activeTab,        \* this.activeTab
    isOpen,           \* this.isOpen
    config,           \* this.config (numeric part)
    searchCache,      \* this.searchCache, a Map kept in insertion order
    timers,           \* the pending setTimeout callbacks, in creation order
    timeoutId,        \* timeoutId captured by the searchDebouncer closure (0: unset)
    now,              \* Date.now()
    currentTheme,     \* this.currentTheme
    dataTheme,        \* the host element's data-theme attribute
    themeAttribute,   \* the host element's theme attribute
    storedTheme,      \* localStorage item "smart-search-theme"
    storageAvailable, \* whether localStorage can be read and written
    requestedTheme,   \* theme of the last setTheme call made with storage available,
                      \* until another theme is applied
    sinceClear,       \* no input, search, focus or tab operation since the last clear()
    reopened,         \* a pending delayed close was followed by an opening or a search
    retry,            \* a call of AsyncUtils.retry: its arguments, position and outcome
    emitted,          \* events dispatched by the last handler, in order
    probe,            \* what the last handler did: searches, matcher calls, cache use
    lastOp            \* name of the last operation

searchVars == <<phase, searchData, inputValue, filteredResults, resultItems,
          selectedIndex, activeTab, isOpen, config,
          searchCache, timers, timeoutId, now, currentTheme, dataTheme,
          themeAttribute, storedTheme, storageAvailable, requestedTheme,
          sinceClear, reopened, emitted, probe, lastOp>>

vars == <<searchVars, retry>>

----------------------------------------------------------------------------
(* Program constants                                                       *)

DEFAULT_SELECTED_INDEX == -1
NAV_DOWN == 1
NAV_UP == -1
SEARCH_CACHE_SIZE == 50
CACHE_EXPIRY_MS == 300000
MIN_CONFIG_VALUE == 1
MIN_DEBOUNCE_DELAY == 100
DEFAULT_MIN_SEARCH_LENGTH == 2
DEFAULT_DEBOUNCE_DELAY == 300
DEFAULT_MAX_RESULTS == 10
FALLBACK_MIN_SEARCH == 2
FALLBACK_DEBOUNCE == 300
FALLBACK_MAX_RESULTS == 10
SELECT_CLOSE_DELAY == 150
DEFAULT_THEME == "light"

\* null, as getAttribute and localStorage.getItem return it for a missing value
NullTheme == "(null)"

\* no setTheme call is remembered; earlier: the call was made on an earlier instance
NoRequest == [theme |-> NullTheme, earlier |-> FALSE]



Tabs == {"all", "account", "customer", "transaction"}

----------------------------------------------------------------------------
(* Bounds of the model                                                     *)

MaxTicks == 1          \* the clock advances at most this many steps
MaxTimers == 2         \* at most this many timers are pending at once
MaxFill == 52          \* distinct keys offered to the cache in SpecFifo
MaxSmallSteps == 5     \* clock steps of SpecDebounce
MaxExpirySteps == 2    \* millisecond steps beside the expiry jump in SpecExpiry
MaxMatchSearches == 1
MaxRetries == 2  \* cached searches per snapshot in SpecMatch

----------------------------------------------------------------------------
(* Strings                                                                 *)

\* a null entry of a data array; an undefined field is a field the record lacks
NullItem == [null |-> TRUE]

IsNullItem(item) == "null" \in DOMAIN item

Digits == {"0", "1", "2", "3", "4", "5", "6", "7", "8", "9"}

IsDigit(c) == c \in Digits

IsSpace(c) == c = " "

Max(a, b) == IF a >= b THEN a ELSE b

Min(a, b) == IF a <= b THEN a ELSE b

\* String.prototype.toLowerCase on one character of the alphabet in use
LowerChar(c) ==
    CASE c = "A" -> "a"
      [] c = "B" -> "b"
      [] c = "C" -> "c"
      [] c = "Z" -> "z"
      [] c = "S" -> "s"
      [] c = "T" -> "t"
      [] c = "U" -> "u"
      [] OTHER -> c

ToLower(s) == [i \in 1..Len(s) |-> LowerChar(s[i])]

\* String.prototype.trim
Trim(s) ==
    LET nonSpace == {i \in 1..Len(s) : ~IsSpace(s[i])}
    IN  IF nonSpace = {} THEN <<>>
        ELSE LET lo == CHOOSE i \in nonSpace : \A j \in nonSpace : i <= j
                 hi == CHOOSE i \in nonSpace : \A j \in nonSpace : i >= j
             IN  SubSeq(s, lo, hi)

\* ValidationUtils.normalizeSearchQuery
normalizeSearchQuery(q) == Trim(ToLower(q))

\* ValidationUtils.isNonEmptyString
isNonEmptyString(s) == Len(Trim(s)) > 0

\* occurrence of q in v starting at position i (1-based)
OccursAt(v, q, i) ==
    /\ i >= 1
    /\ i + Len(q) - 1 <= Len(v)
    /\ \A k \in 1..Len(q) : v[i + k - 1] = q[k]

StartsWith(v, q) == OccursAt(v, q, 1)

EndsWith(v, q) == Len(q) <= Len(v) /\ OccursAt(v, q, Len(v) - Len(q) + 1)

Includes(v, q) == \E i \in 1..(Len(v) + 1) : OccursAt(v, q, i)

\* some element of v.split(/\s+/) starts with q: a word begins at position 1
\* or right after a white-space character; a leading or trailing separator
\* yields an empty word, which starts with q only when q is empty
WordStartsWith(v, q) ==
    \/ \E i \in 1..Len(v) :
          /\ ~IsSpace(v[i])
          /\ (i = 1 \/ IsSpace(v[i - 1]))
          /\ OccursAt(v, q, i)
          /\ \A k \in 1..Len(q) : ~IsSpace(q[k])
    \/ (q = <<>> /\ (v = <<>> \/ IsSpace(v[1]) \/ IsSpace(v[Len(v)])))

\* /^\d+$/.test(q)
IsAllDigits(q) == Len(q) > 0 /\ \A i \in 1..Len(q) : IsDigit(q[i])

\* new RegExp(`[^\\d]${q}(?:[^\\d]|$)`).test(v), q all digits
BoundaryMatch(v, q) ==
    \E i \in 1..Len(v) :
        /\ ~IsDigit(v[i])
        /\ OccursAt(v, q, i + 1)
        /\ (i + Len(q) = Len(v) \/ ~IsDigit(v[i + Len(q) + 1]))

\* fieldName.includes('id') || fieldName.includes('number'), evaluated on the
\* lower-cased names of the searchable fields
IsIdField(field) == field \in {"accountNumber", "customerId", "transactionId"}

\* variant: containment decides for a query of any length
FieldMatchesAnySubstring(item, field, normalizedQuery) ==
    IF field \notin DOMAIN item THEN FALSE
    ELSE LET normalizedValue == ToLower(item[field])
         IN  IF IsAllDigits(normalizedQuery) /\ IsIdField(field)
             THEN \/ StartsWith(normalizedValue, normalizedQuery)
                  \/ EndsWith(normalizedValue, normalizedQuery)
                  \/ BoundaryMatch(normalizedValue, normalizedQuery)
             ELSE Includes(normalizedValue, normalizedQuery)

FieldMatches(item, field, normalizedQuery) ==
    IF field \notin DOMAIN item THEN FALSE
    ELSE LET normalizedValue == ToLower(item[field])
         IN  IF normalizedValue = normalizedQuery THEN TRUE
             ELSE IF StartsWith(normalizedValue, normalizedQuery) THEN TRUE
             ELSE IF WordStartsWith(normalizedValue, normalizedQuery) THEN TRUE
             ELSE IF IsAllDigits(normalizedQuery) /\ IsIdField(field)
                  THEN \/ EndsWith(normalizedValue, normalizedQuery)
                       \/ BoundaryMatch(normalizedValue, normalizedQuery)
             ELSE IF Len(normalizedQuery) >= 3
                  THEN Includes(normalizedValue, normalizedQuery)
             ELSE FALSE

\* matchesSearch(item, query, fields) throws a TypeError when item is null and
\* the normalized query is not empty (item[field] is then evaluated)
matchesSearchThrows(item, query) ==
    IsNullItem(item) /\ normalizeSearchQuery(query) # <<>>

matchesSearch(item, query, fields) ==
    LET normalizedQuery == normalizeSearchQuery(query)
    IN  IF normalizedQuery = <<>> THEN FALSE
        ELSE \E f \in fields : FieldMatches(item, f, normalizedQuery)

----------------------------------------------------------------------------
(* Records and results                                                     *)

AccountFields == {"accountNumber", "title", "type"}
CustomerFields == {"firstName", "lastName", "email", "customerId"}
TransactionFields == {"transactionId", "merchant", "category", "description"}

\* formatter of searchAccounts / searchCustomers / searchTransactions: the title
formatTitle(item, type) ==
    CASE type = "account" -> item.title
      [] type = "customer" -> item.firstName \o <<" ">> \o item.lastName
      [] type = "transaction" -> item.merchant

\* the object built by searchByType's map(); subtitle, metadata and icon are
\* display strings derived from the same record and are left out
MakeResult(item, type) ==
    [id |-> item.id, type |-> type, title |-> formatTitle(item, type)]

FieldsOf(type) ==
    CASE type = "account" -> AccountFields
      [] type = "customer" -> CustomerFields
      [] type = "transaction" -> TransactionFields

RECURSIVE FilterMap(_, _, _)
FilterMap(data, query, type) ==
    IF data = <<>> THEN <<>>
    ELSE LET rest == FilterMap(Tail(data), query, type)
         IN  IF matchesSearch(Head(data), query, FieldsOf(type))
             THEN <<MakeResult(Head(data), type)>> \o rest
             ELSE rest

\* searchByType: data.filter(matchesSearch).map(format); defined when no item throws
searchByType(data, query, type) == FilterMap(data, query, type)

searchAccounts(data, query) == searchByType(data.accounts, query, "account")
searchCustomers(data, query) == searchByType(data.customers, query, "customer")
searchTransactions(data, query) == searchByType(data.transactions, query, "transaction")

\* the record lists scanned for a tab, in the order performSearch scans them
ScanOrder(data, tab) ==
    CASE tab = "all" -> data.accounts \o data.customers \o data.transactions
      [] tab = "account" -> data.accounts
      [] tab = "customer" -> data.customers
      [] tab = "transaction" -> data.transactions

SearchThrows(data, query, tab) ==
    \E i \in 1..Len(ScanOrder(data, tab)) : matchesSearchThrows(ScanOrder(data, tab)[i], query)

\* number of matchesSearch invocations made by the scan (it stops at a throw)
MatcherCalls(data, query, tab) ==
    LET scan == ScanOrder(data, tab)
        bad == {i \in 1..Len(scan) : matchesSearchThrows(scan[i], query)}
    IN  IF bad = {} THEN Len(scan)
        ELSE CHOOSE i \in bad : \A j \in bad : i <= j

Slice(seq, n) == SubSeq(seq, 1, Min(Len(seq), n))

\* variant: the cap is applied to each category before the lists are joined
ComputeResultsCapPerCategory(data, query, tab, maxResults) ==
    CASE tab = "all" -> Slice(searchAccounts(data, query), maxResults)
                            \o Slice(searchCustomers(data, query), maxResults)
                            \o Slice(searchTransactions(data, query), maxResults)
      [] tab = "account" -> Slice(searchAccounts(data, query), maxResults)
      [] tab = "customer" -> Slice(searchCustomers(data, query), maxResults)
      [] tab = "transaction" -> Slice(searchTransactions(data, query), maxResults)

\* the try block of performSearch up to "results.slice(0, maxResults)"
ComputeResults(data, query, tab, maxResults) ==
    LET results ==
            CASE tab = "all" -> searchAccounts(data, query) \o searchCustomers(data, query)
                                    \o searchTransactions(data, query)
              [] tab = "account" -> searchAccounts(data, query)
              [] tab = "customer" -> searchCustomers(data, query)
              [] tab = "transaction" -> searchTransactions(data, query)
    IN  Slice(results, maxResults)

----------------------------------------------------------------------------
(* Search cache                                                            *)

TabChars(tab) ==
    CASE tab = "all" -> <<"a", "l", "l">>
      [] tab = "account" -> <<"a", "c", "c", "o", "u", "n", "t">>
      [] tab = "customer" -> <<"c", "u", "s", "t", "o", "m", "e", "r">>
      [] tab = "transaction" -> <<"t", "r", "a", "n", "s", "a", "c", "t", "i", "o", "n">>

\* `${normalizeSearchQuery(query)}_${tab}`
CacheKey(query, tab) == normalizeSearchQuery(query) \o <<"_">> \o TabChars(tab)

CacheIndex(cache, key) ==
    IF \E i \in 1..Len(cache) : cache[i].key = key
    THEN CHOOSE i \in 1..Len(cache) : cache[i].key = key
    ELSE 0

RemoveAt(seq, i) == SubSeq(seq, 1, i - 1) \o SubSeq(seq, i + 1, Len(seq))

\* variant: the age in milliseconds is compared with the expiry taken as seconds
IsExpiredInSeconds(entry, t) == t - entry.timestamp > CACHE_EXPIRY_MS * 1000

IsExpired(entry, t) == t - entry.timestamp > CACHE_EXPIRY_MS

\* getCachedResults: [hit, results, cache]
getCachedResults(cache, query, tab, t) ==
    LET i == CacheIndex(cache, CacheKey(query, tab))
    IN  IF i = 0 THEN [hit |-> FALSE, results |-> <<>>, cache |-> cache]
        ELSE IF IsExpired(cache[i], t)
             THEN [hit |-> FALSE, results |-> <<>>, cache |-> RemoveAt(cache, i)]
        ELSE [hit |-> TRUE, results |-> cache[i].results, cache |-> cache]

\* variant: evicts only once the size exceeds SEARCH_CACHE_SIZE
setCachedResultsLateEviction(cache, query, tab, results, t) ==
    LET key == CacheKey(query, tab)
        kept == IF Len(cache) > SEARCH_CACHE_SIZE THEN Tail(cache) ELSE cache
        entry == [key |-> key, query |-> normalizeSearchQuery(query), tab |-> tab,
                  results |-> results, timestamp |-> t]
        i == CacheIndex(kept, key)
    IN  IF i = 0 THEN Append(kept, entry)
        ELSE [kept EXCEPT ![i] = entry]

\* variant: an empty result list is not stored
setCachedResultsSkipsEmpty(cache, query, tab, results, t) ==
    LET key == CacheKey(query, tab)
        kept == IF Len(cache) >= SEARCH_CACHE_SIZE THEN Tail(cache) ELSE cache
        entry == [key |-> key, query |-> normalizeSearchQuery(query), tab |-> tab,
                  results |-> results, timestamp |-> t]
        i == CacheIndex(kept, key)
    IN  IF results = <<>> THEN cache
        ELSE IF i = 0 THEN Append(kept, entry)
        ELSE [kept EXCEPT ![i] = entry]

\* setCachedResults: evict the first key of a full Map, then Map.set
setCachedResults(cache, query, tab, results, t) ==
    LET key == CacheKey(query, tab)
        kept == IF Len(cache) >= SEARCH_CACHE_SIZE THEN Tail(cache) ELSE cache
        entry == [key |-> key, query |-> normalizeSearchQuery(query), tab |-> tab,
                  results |-> results, timestamp |-> t]
        i == CacheIndex(kept, key)
    IN  IF i = 0 THEN Append(kept, entry)
        ELSE [kept EXCEPT ![i] = entry]

\* clearExpiredCache
clearExpiredCache(cache, t) == SelectSeq(cache, LAMBDA e : ~IsExpired(e, t))

----------------------------------------------------------------------------
(* Handlers, as functions of the component state s                         *)

\* sequencing of statements: v is evaluated once and Op continues with its value
Then(v, Op(_)) == CHOOSE r \in {Op(x) : x \in {v}} : TRUE

Emit(s, ev) == [s EXCEPT !.emitted = Append(@, ev)]

\* setSelectedIndex: getResultItems() is a NodeList once the DOM is rendered
setSelectedIndex(s, index) == [s EXCEPT !.selectedIndex = index]

\* variant: an empty result list does not open the dropdown
openDropdownOnlyWithResults(s) ==
    IF s.isOpen \/ s.filteredResults = <<>> THEN s
    ELSE Emit([s EXCEPT !.isOpen = TRUE], [name |-> "dropdown-opened"])

\* variant: the open event is announced on every call
openDropdownAlwaysEmits(s) ==
    Emit([s EXCEPT !.isOpen = TRUE], [name |-> "dropdown-opened"])

openDropdown(s) ==
    IF s.isOpen THEN s
    ELSE Emit([s EXCEPT !.isOpen = TRUE], [name |-> "dropdown-opened"])

\* variant: the dropdown closes and the selection is kept
closeDropdownKeepsSelection(s) ==
    IF ~s.isOpen THEN s
    ELSE Emit([s EXCEPT !.isOpen = FALSE], [name |-> "dropdown-closed"])

closeDropdown(s) ==
    IF ~s.isOpen THEN s
    ELSE Emit(setSelectedIndex([s EXCEPT !.isOpen = FALSE], -1),
              [name |-> "dropdown-closed"])

\* variant: the empty case leaves the items of the previous list in place
renderResultsKeepsItems(s) ==
    IF Len(s.filteredResults) = 0
    THEN s
    ELSE [s EXCEPT !.resultItems = Len(s.filteredResults), !.selectedIndex = -1]

\* renderResults: the early return of the empty case skips "selectedIndex = -1"
renderResults(s) ==
    IF Len(s.filteredResults) = 0
    THEN [s EXCEPT !.resultItems = 0]
    ELSE [s EXCEPT !.resultItems = Len(s.filteredResults), !.selectedIndex = -1]

\* variant: the event reports the 'all' tab whatever the active tab
SearchPerformedReportsAllTab(s, query) ==
    [name |-> "search-performed", query |-> query,
     resultCount |-> Len(s.filteredResults), activeTab |-> "all"]

SearchPerformed(s, query) ==
    [name |-> "search-performed", query |-> query,
     resultCount |-> Len(s.filteredResults), activeTab |-> s.activeTab]

\* what one performSearch did: the path taken, the cache accesses, the matcher
\* calls, and the list and the tab it left
Probe(s, rec) ==
    [s EXCEPT !.probe = Append(@, rec @@ [installed |-> Len(s.filteredResults),
                                          tab |-> s.activeTab])]

performSearch(s0, query) ==
    Then(s0, LAMBDA s :
      IF Len(query) < s.config.minSearchLength
      THEN Then(closeDropdown(renderResults([s EXCEPT !.filteredResults = <<>>])),
                LAMBDA s2 :
                  Emit(Probe(s2, [query |-> query, short |-> TRUE, read |-> FALSE,
                                  hit |-> FALSE, expired |-> FALSE, matcher |-> 0,
                                  threw |-> FALSE, wrote |-> FALSE]),
                       [name |-> "search-performed", query |-> query,
                        resultCount |-> 0, activeTab |-> s.activeTab]))
      ELSE Then(getCachedResults(s.searchCache, query, s.activeTab, s.now),
                LAMBDA got :
        IF got.hit
        THEN Then(openDropdown(renderResults([s EXCEPT !.filteredResults = got.results,
                                                       !.searchCache = got.cache])),
                  LAMBDA s2 :
                    Emit(Probe(s2, [query |-> query, short |-> FALSE, read |-> TRUE,
                                    hit |-> TRUE, expired |-> FALSE, matcher |-> 0,
                                    threw |-> FALSE, wrote |-> FALSE]),
                         SearchPerformed(s2, query)))
        ELSE Then(clearExpiredCache(got.cache, s.now), LAMBDA pruned :
          Then([query |-> query, short |-> FALSE, read |-> TRUE, hit |-> FALSE,
                expired |-> Len(got.cache) < Len(s.searchCache),
                matcher |-> MatcherCalls(s.searchData, query, s.activeTab),
                threw |-> SearchThrows(s.searchData, query, s.activeTab),
                wrote |-> ~SearchThrows(s.searchData, query, s.activeTab)],
               LAMBDA rec :
            IF rec.threw
            THEN Then(closeDropdown(renderResults([s EXCEPT !.filteredResults = <<>>,
                                                           !.searchCache = pruned])),
                      LAMBDA s2 : Emit(Probe(s2, rec), SearchPerformed(s2, query)))
            ELSE Then(ComputeResults(s.searchData, query, s.activeTab,
                                     s.config.maxResults),
                      LAMBDA results :
                   Then(openDropdown(renderResults(
                            [s EXCEPT !.filteredResults = results,
                                      !.searchCache = setCachedResults(
                                          pruned, query, s.activeTab, results, s.now)])),
                        LAMBDA s2 : Emit(Probe(s2, rec), SearchPerformed(s2, query))))))))

\* variant: a step past either end wraps around to the other end
navigateResultsWrapping(s, direction) ==
    LET newIndex == s.selectedIndex + direction
        n == Len(s.filteredResults)
    IN  IF n = 0 THEN s
        ELSE IF newIndex < 0 THEN setSelectedIndex(s, n - 1)
        ELSE IF newIndex >= n THEN setSelectedIndex(s, 0)
        ELSE setSelectedIndex(s, newIndex)

navigateResults(s, direction) ==
    LET newIndex == s.selectedIndex + direction
    IN  IF newIndex < DEFAULT_SELECTED_INDEX \/ newIndex >= Len(s.filteredResults)
        THEN s
        ELSE setSelectedIndex(s, newIndex)

\* the smallest timer id in use neither by a pending timer nor by the debouncer
\* (setTimeout never hands out an id twice; ids are otherwise opaque)
FreshId(s) ==
    LET used == {s.timers[i].id : i \in 1..Len(s.timers)} \cup {s.timeoutId}
    IN  CHOOSE n \in 1..(Cardinality(used) + 1) :
            n \notin used /\ \A m \in 1..(n - 1) : m \in used

\* window.setTimeout(callback, delay)
setTimeout(s, kind, query, delay) ==
    [s EXCEPT !.timers = Append(@, [id |-> FreshId(s), kind |-> kind,
                                     query |-> query, due |-> s.now + delay])]

\* clearTimeout(id)
clearTimeout(s, id) ==
    [s EXCEPT !.timers = SelectSeq(@, LAMBDA tm : tm.id # id)]

\* variant: the selection is announced and the close is never scheduled
selectResultNeverCloses(s, result) ==
    [Emit(s, [name |-> "result-selected", result |-> result])
        EXCEPT !.inputValue = result.title]

selectResult(s, result) ==
    Then([Emit(s, [name |-> "result-selected", result |-> result])
             EXCEPT !.inputValue = result.title],
         LAMBDA s2 : setTimeout(s2, "close", <<>>, SELECT_CLOSE_DELAY))

\* variant: the debouncer schedules without clearing its previous timer
performDebouncedSearchNoCancel(s0, query) ==
    Then(s0, LAMBDA s :
      [setTimeout(s, "debounce", query, s.config.debounceDelay)
          EXCEPT !.timeoutId = FreshId(s)])

\* performDebouncedSearch: the debouncer closure clears its previous timer and
\* schedules performSearch(query) after config.debounceDelay
performDebouncedSearch(s0, query) ==
    Then(clearTimeout(s0, s0.timeoutId), LAMBDA s1 :
      [setTimeout(s1, "debounce", query, s1.config.debounceDelay)
          EXCEPT !.timeoutId = FreshId(s1)])

\* variant: the tab changes and the cache is kept
setActiveTabKeepsCache(s0, tab) ==
    Then(s0, LAMBDA s :
      IF s.activeTab = tab THEN s
      ELSE Then(IF isNonEmptyString(s.inputValue)
                THEN performSearch([s EXCEPT !.activeTab = tab],
                                   normalizeSearchQuery(s.inputValue))
                ELSE [s EXCEPT !.activeTab = tab],
                LAMBDA s2 : Emit(s2, [name |-> "tab-changed", activeTab |-> s2.activeTab])))

\* variant: the tab changes and the list of the previous tab stays
setActiveTabKeepsResults(s0, tab) ==
    Then(s0, LAMBDA s :
      IF s.activeTab = tab THEN s
      ELSE Emit([s EXCEPT !.activeTab = tab, !.searchCache = <<>>],
                [name |-> "tab-changed", activeTab |-> tab]))

setActiveTab(s0, tab) ==
    Then(s0, LAMBDA s :
      IF s.activeTab = tab THEN s
      ELSE Then(IF isNonEmptyString(s.inputValue)
                THEN performSearch([s EXCEPT !.activeTab = tab, !.searchCache = <<>>],
                                   normalizeSearchQuery(s.inputValue))
                ELSE [s EXCEPT !.activeTab = tab, !.searchCache = <<>>],
                LAMBDA s2 : Emit(s2, [name |-> "tab-changed", activeTab |-> s2.activeTab])))

handleSearch(s, query) ==
    performDebouncedSearch([s EXCEPT !.inputValue = query], query)

handleFocus(s) ==
    IF Len(s.inputValue) > 0 /\ Len(s.inputValue) >= s.config.minSearchLength
    THEN performSearch(s, s.inputValue)
    ELSE s

\* variant: clear leaves the active tab as it is
handleClearKeepsTab(s) ==
    Emit(closeDropdown([s EXCEPT !.inputValue = <<>>, !.filteredResults = <<>>,
                                 !.selectedIndex = DEFAULT_SELECTED_INDEX]),
         [name |-> "search-cleared"])

handleClear(s) ==
    Then(setActiveTab([s EXCEPT !.inputValue = <<>>, !.filteredResults = <<>>,
                                !.selectedIndex = DEFAULT_SELECTED_INDEX], "all"),
         LAMBDA s2 : Emit(closeDropdown(s2), [name |-> "search-cleared"]))

handleTabClick(s, tab) ==
    Then(setActiveTab(s, tab), LAMBDA s1 :
      IF Len(s1.inputValue) > 0 /\ Len(s1.inputValue) >= s1.config.minSearchLength
      THEN performSearch(s1, s1.inputValue)
      ELSE s1)

handleClickOutside(s) == closeDropdown(s)

handleResultClick(s, index) ==
    IF index >= 0 /\ index < Len(s.filteredResults)
    THEN selectResult(s, s.filteredResults[index + 1])
    ELSE s

handleResultHover(s, index) == setSelectedIndex(s, index)

\* handleKeyboardNavigation; tabLeaves: handleTabNavigation lets the focus leave
\* the component (it then closes the dropdown) instead of moving it inside
handleKeyboardNavigation(s, key, tabLeaves) ==
    CASE key = "ArrowDown" -> navigateResults(s, NAV_DOWN)
      [] key = "ArrowUp" -> navigateResults(s, NAV_UP)
      [] key = "Enter" ->
            IF s.selectedIndex >= 0 /\ s.selectedIndex < Len(s.filteredResults)
            THEN selectResult(s, s.filteredResults[s.selectedIndex + 1])
            ELSE s
      [] key = "Escape" -> closeDropdown(s)
      [] key = "Tab" ->
            IF s.isOpen /\ Len(s.filteredResults) > 0
            THEN (IF tabLeaves THEN closeDropdown(s) ELSE s)
            ELSE closeDropdown(s)
      [] OTHER -> s

handleKeyDown(s, key, tabLeaves) ==
    IF ~s.isOpen
    THEN IF key = "ArrowDown" /\ Len(s.inputValue) > 0 THEN openDropdown(s) ELSE s
    ELSE handleKeyboardNavigation(s, key, tabLeaves)

\* attachEventListeners registers handleKeyDown on the input and, through
\* shadowKeyboardHandler, on the shadow root: a keydown on the input reaches
\* both listeners, a keydown on a focused result item only the second
DispatchKeyDown(s, key, target, tabLeaves) ==
    IF target = "input"
    THEN Then(handleKeyDown(s, key, tabLeaves),
              LAMBDA s1 : handleKeyDown(s1, key, tabLeaves))
    ELSE handleKeyDown(s, key, tabLeaves)

----------------------------------------------------------------------------
(* Theme                                                                   *)

Themes == {"light", "dark"}

\* a value that JavaScript's || skips: null or the empty string
Falsy(v) == v \in {NullTheme, ""}

\* variant: the host attribute is written only when the theme differs from it
updateThemeSkipsHost(s, theme) ==
    Emit(s, [name |-> "theme-changed", theme |-> theme])

\* updateTheme: setAttribute writes the string form of its argument
updateTheme(s, theme) ==
    Emit([s EXCEPT !.dataTheme = IF theme = NullTheme THEN "null" ELSE theme],
         [name |-> "theme-changed", theme |-> theme])

getStoredTheme(s) ==
    IF s.storageAvailable /\ s.storedTheme \in Themes THEN s.storedTheme ELSE NullTheme

storeTheme(s, theme) ==
    IF s.storageAvailable THEN [s EXCEPT !.storedTheme = theme] ELSE s

\* variant: a theme change is applied and never stored
setThemeNeverStores(s, requested, force) ==
    LET theme == IF requested \in Themes THEN requested ELSE DEFAULT_THEME
    IN  IF s.currentTheme = theme /\ ~force THEN s
        ELSE updateTheme([s EXCEPT !.currentTheme = theme], theme)

\* setTheme: updatePageTheme and updateThemeButton change the page, not the component
setTheme(s, requested, force) ==
    LET theme == IF requested \in Themes THEN requested ELSE DEFAULT_THEME
    IN  IF s.currentTheme = theme /\ ~force THEN s
        ELSE Then(updateTheme([s EXCEPT !.currentTheme = theme], theme),
                  LAMBDA s2 : storeTheme(s2, theme))

\* variant: the stored theme wins over the theme attribute
initializeThemePrefersStorage(s) ==
    LET initialTheme == IF ~Falsy(getStoredTheme(s)) THEN getStoredTheme(s)
                        ELSE IF ~Falsy(s.themeAttribute) THEN s.themeAttribute
                        ELSE DEFAULT_THEME
    IN  setTheme(s, IF initialTheme \in Themes THEN initialTheme ELSE DEFAULT_THEME, TRUE)

initializeTheme(s) ==
    LET initialTheme == IF ~Falsy(s.themeAttribute) THEN s.themeAttribute
                        ELSE IF ~Falsy(getStoredTheme(s)) THEN getStoredTheme(s)
                        ELSE DEFAULT_THEME
    IN  setTheme(s, IF initialTheme \in Themes THEN initialTheme ELSE DEFAULT_THEME, TRUE)

toggleTheme(s) ==
    setTheme(s, IF s.currentTheme = "light" THEN "dark" ELSE "light", FALSE)

handleThemeToggle(s) ==
    setTheme(s, IF s.currentTheme = "light" THEN "dark" ELSE "light", FALSE)

----------------------------------------------------------------------------
(* AsyncUtils.retry                                                        *)

\* what one invocation of the operation does: it resolves with a value, or rejects
\* with an Error (isError) or with a value that is not an Error
Outcomes ==
    {[ok |-> TRUE, isError |-> FALSE, value |-> "v1"],
     [ok |-> TRUE, isError |-> FALSE, value |-> "v2"],
     [ok |-> FALSE, isError |-> TRUE, value |-> "e1"],
     [ok |-> FALSE, isError |-> FALSE, value |-> "x"]}

\* lastError before any attempt has failed
Undefined == [ok |-> FALSE, isError |-> FALSE, value |-> "(undefined)"]

\* no call of retry is in progress
NoRetry ==
    [status |-> "idle", maxRetries |-> 0, baseDelay |-> 0, operation |-> <<>>,
     attempt |-> 0, calls |-> 0, delays |-> <<>>, lastError |-> Undefined,
     result |-> Undefined]

\* error instanceof Error ? error : new Error(String(error))
AsError(error) == [error EXCEPT !.isError = TRUE]

\* variant: every wait lasts baseDelay
retryDelayConstant(baseDelay, attempt) == baseDelay

\* baseDelay * Math.pow(2, attempt)
retryDelay(baseDelay, attempt) == baseDelay * 2^attempt

\* the loop test of retry; a loop that never runs throws lastError as it is
retryLoop(r) ==
    IF r.attempt <= r.maxRetries THEN [r EXCEPT !.status = "calling"]
    ELSE [r EXCEPT !.status = "rejected", !.result = r.lastError]

\* one pass of the try block: await operation()
retryAttempt(r) ==
    LET outcome == r.operation[r.calls + 1]
        called == [r EXCEPT !.calls = @ + 1]
    IN  IF outcome.ok
        THEN [called EXCEPT !.status = "resolved", !.result = outcome]
        ELSE IF r.attempt = r.maxRetries
        THEN [called EXCEPT !.status = "rejected", !.lastError = AsError(outcome),
                            !.result = AsError(outcome)]
        ELSE [called EXCEPT !.status = "waiting", !.lastError = AsError(outcome),
                            !.delays = Append(@, retryDelay(r.baseDelay, r.attempt))]

----------------------------------------------------------------------------
(* Configuration                                                           *)

DigitValue(c) ==
    CASE c = "0" -> 0 [] c = "1" -> 1 [] c = "2" -> 2 [] c = "3" -> 3 [] c = "4" -> 4
      [] c = "5" -> 5 [] c = "6" -> 6 [] c = "7" -> 7 [] c = "8" -> 8 [] c = "9" -> 9

RECURSIVE DigitsValue(_, _)
DigitsValue(s, acc) ==
    IF s = <<>> \/ ~IsDigit(Head(s)) THEN acc
    ELSE DigitsValue(Tail(s), 10 * acc + DigitValue(Head(s)))

RECURSIVE SkipSpaces(_)
SkipSpaces(s) == IF s # <<>> /\ IsSpace(Head(s)) THEN SkipSpaces(Tail(s)) ELSE s

\* parseInt(value, 10): leading white space, an optional sign, then the longest
\* run of digits; NaN when there is no digit
ParseInt(value) ==
    LET s0 == SkipSpaces(value)
        neg == s0 # <<>> /\ Head(s0) = "-"
        s1 == IF s0 # <<>> /\ Head(s0) \in {"-", "+"} THEN Tail(s0) ELSE s0
    IN  IF s1 = <<>> \/ ~IsDigit(Head(s1)) THEN [nan |-> TRUE, val |-> 0]
        ELSE [nan |-> FALSE, val |-> IF neg THEN 0 - DigitsValue(s1, 0) ELSE DigitsValue(s1, 0)]

\* ValidationUtils.parseIntWithFallback
parseIntWithFallback(value, fallback) ==
    IF ParseInt(value).nan THEN fallback ELSE ParseInt(value).val

\* variant: zero is replaced by the default and no floor is applied
validateConfigNoFloor(c) ==
    [minSearchLength |-> IF c.minSearchLength = 0 THEN DEFAULT_MIN_SEARCH_LENGTH
                         ELSE c.minSearchLength,
     debounceDelay |-> IF c.debounceDelay = 0 THEN DEFAULT_DEBOUNCE_DELAY
                       ELSE c.debounceDelay,
     maxResults |-> IF c.maxResults = 0 THEN DEFAULT_MAX_RESULTS ELSE c.maxResults]

\* validateConfig, numeric fields: "x || default" replaces 0 by the default
validateConfig(c) ==
    [minSearchLength |-> Max(MIN_CONFIG_VALUE,
                             IF c.minSearchLength = 0 THEN DEFAULT_MIN_SEARCH_LENGTH
                             ELSE c.minSearchLength),
     debounceDelay |-> Max(MIN_DEBOUNCE_DELAY,
                           IF c.debounceDelay = 0 THEN DEFAULT_DEBOUNCE_DELAY
                           ELSE c.debounceDelay),
     maxResults |-> Max(MIN_CONFIG_VALUE,
                        IF c.maxResults = 0 THEN DEFAULT_MAX_RESULTS ELSE c.maxResults)]

handleAttributeChange(s, name, newValue) ==
    LET configUpdate ==
            CASE name = "min-search-length" ->
                    [s.config EXCEPT !.minSearchLength =
                        parseIntWithFallback(newValue, FALLBACK_MIN_SEARCH)]
              [] name = "debounce-delay" ->
                    [s.config EXCEPT !.debounceDelay =
                        parseIntWithFallback(newValue, FALLBACK_DEBOUNCE)]
              [] name = "max-results" ->
                    [s.config EXCEPT !.maxResults =
                        parseIntWithFallback(newValue, FALLBACK_MAX_RESULTS)]
              [] OTHER -> s.config
    IN  IF name = "theme" THEN updateTheme(s, newValue)
        ELSE [s EXCEPT !.config = validateConfig(configUpdate)]

----------------------------------------------------------------------------
(* Data snapshots and inputs                                               *)

Account1 == [id |-> <<"1">>, title |-> <<"a", "b">>, accountNumber |-> <<"1", "2">>,
             type |-> <<"x">>]
Customer1 == [id |-> <<"2">>, firstName |-> <<"A", "b">>, lastName |-> <<"c">>,
              email |-> <<"q">>, customerId |-> <<"C", "-", "7">>]
Transaction1 == [id |-> <<"3">>, transactionId |-> <<"T", "-", "9">>,
                 merchant |-> <<"a", "b", "z">>, category |-> <<"k">>,
                 description |-> <<"d">>]

\* the snapshot of the constructor
DataEmpty == [accounts |-> <<>>, customers |-> <<>>, transactions |-> <<>>]
DataFull == [accounts |-> <<Account1>>, customers |-> <<Customer1>>,
             transactions |-> <<Transaction1>>]
\* a snapshot whose accounts array holds a null entry
DataBad == [accounts |-> <<Account1, NullItem>>, customers |-> <<Customer1>>,
            transactions |-> <<>>]

Snapshots == {DataFull, DataBad}

Account2 == [id |-> <<"4">>, title |-> <<"c", "d">>, accountNumber |-> <<"3", "4">>,
             type |-> <<"y">>]
Account3 == [id |-> <<"5">>, title |-> <<"a", "b", "c">>, accountNumber |-> <<"5", "6">>,
             type |-> <<"x">>]
\* a snapshot whose accounts array holds two matches around a non-match
DataWide == [accounts |-> <<Account1, Account2, Account3>>, customers |-> <<Customer1>>,
             transactions |-> <<Transaction1>>]

\* values of the max-results attribute: the floor, two, and a non-number
MaxResultsValues == {<<"1">>, <<"2">>, <<"x">>}

ConfigTabs == Tabs

\* queries of SpecSearch: too short, too short once trimmed, matching
SearchQueries == {<<"a">>, <<"a", " ">>, <<"a", "b">>}

SearchTabs == {"all", "customer"}

\* queries of SpecDebounce and SpecExpiry: three results, no result
TimeQueries == {<<"a", "b">>, <<"z", "z">>}

\* too short, three results, no result
SelQueries == {<<"a">>, <<"a", "b">>, <<"z", "z">>}

\* queries of SpecConfig: empty, too short, four results, no result
ConfigQueries == SelQueries \cup {<<>>}


\* values of the customerId field: a long number, a number ending in 123, an
\* identifier with a separated number, a number inside letters
IdValues == {<<"1", "2", "3", "4", "5", "6">>, <<"4", "5", "6", "7", "1", "2", "3">>,
             <<"C", "U", "S", "T", "-", "1", "2", "3">>, <<"a", "1", "2", "b">>}

\* values of the lastName field: two words, one word
NameValues == {<<"x", "y", " ", "a", "b">>, <<"x", "a", "b", "y">>}

\* snapshots of one customer whose customerId and lastName vary
MatchSnapshots ==
    {[accounts |-> <<>>,
      customers |-> <<[id |-> <<"9">>, firstName |-> <<"q">>, lastName |-> name,
                       email |-> <<"q">>, customerId |-> cid]>>,
      transactions |-> <<>>] : cid \in IdValues, name \in NameValues}

\* all-digit queries of two and three characters, and letter queries of one, two
\* and three characters
MatchQueries == {<<"1", "2">>, <<"1", "2", "3">>, <<"b">>, <<"a", "b">>, <<"u", "s">>,
                 <<"u", "s", "t">>, <<"a", "b", "y">>}

\* values of the min-search-length attribute
MinLengthValues == {<<"1">>, <<"2">>}


\* the numeric attributes
NumericAttributes == {"min-search-length", "debounce-delay", "max-results"}

\* attribute values: zero, negative, not a number, empty, below and above the
\* debounce floor
AttributeValues == {<<"0">>, <<"-", "5">>, <<"x">>, <<>>, <<"5", "0">>, <<"1", "5", "0">>}

\* the k-th query offered to the cache in SpecFifo: the two digits of k
FillQuery(k) ==
    LET d == <<"0", "1", "2", "3", "4", "5", "6", "7", "8", "9">>
    IN  <<d[(k \div 10) + 1], d[(k % 10) + 1]>>

\* accounts whose numbers are matched by some of the fill queries
DataFifo == [accounts |-> <<[id |-> <<"1">>, title |-> <<"a", "b">>,
                            accountNumber |-> <<"1", "2">>, type |-> <<"x">>],
                           [id |-> <<"4">>, title |-> <<"c">>,
                            accountNumber |-> <<"5", "1", "2">>, type |-> <<"x">>]>>,
             customers |-> <<>>, transactions |-> <<>>]

\* clock step of SpecDebounce
SmallStep == MIN_DEBOUNCE_DELAY

\* values of the debounce-delay attribute: the floor and a non-number
DelayValues == {<<"1", "0", "0">>, <<"x">>}

Keys == {"ArrowDown", "ArrowUp", "Enter", "Escape", "Tab"}

----------------------------------------------------------------------------
(* State machine                                                           *)

Cur ==
    [searchData |-> searchData, inputValue |-> inputValue,
     filteredResults |-> filteredResults, resultItems |-> resultItems,
     selectedIndex |-> selectedIndex,
     activeTab |-> activeTab, isOpen |-> isOpen, config |-> config,
     searchCache |-> searchCache, timers |-> timers, timeoutId |-> timeoutId,
     now |-> now, currentTheme |-> currentTheme, dataTheme |-> dataTheme,
     themeAttribute |-> themeAttribute, storedTheme |-> storedTheme,
     storageAvailable |-> storageAvailable, requestedTheme |-> requestedTheme,
     emitted |-> <<>>, probe |-> <<>>]

\* clear() starts a period that the next input, search, focus or tab operation ends
SinceClearAfter(op) ==
    IF op = "clear" THEN TRUE
    ELSE IF op \in {"input", "search", "focus", "setTab", "tabClick", "new"} THEN FALSE
    ELSE sinceClear

\* whether the dropdown was opened or a search was performed after the last
\* selection, while a delayed close of selectResult is still pending
ReopenedAfter(r) ==
    LET names == {r.emitted[i].name : i \in 1..Len(r.emitted)}
    IN  IF \A i \in 1..Len(r.timers) : r.timers[i].kind # "close" THEN FALSE
        ELSE IF "result-selected" \in names THEN FALSE
        ELSE IF names \cap {"dropdown-opened", "search-performed"} # {} THEN TRUE
        ELSE reopened

\* the handler's result s becomes the next state
Install(s, op) ==
    \E r \in {s} :
        /\ searchData' = r.searchData
        /\ inputValue' = r.inputValue
        /\ filteredResults' = r.filteredResults
        /\ resultItems' = r.resultItems
        /\ selectedIndex' = r.selectedIndex
        /\ activeTab' = r.activeTab
        /\ isOpen' = r.isOpen
        /\ config' = r.config
        /\ searchCache' = r.searchCache
        /\ timers' = r.timers
        /\ timeoutId' = r.timeoutId
        /\ now' = r.now
        /\ currentTheme' = r.currentTheme
        /\ dataTheme' = r.dataTheme
        /\ themeAttribute' = r.themeAttribute
        /\ storedTheme' = r.storedTheme
        /\ storageAvailable' = r.storageAvailable
        /\ requestedTheme' = r.requestedTheme
        /\ sinceClear' = SinceClearAfter(op)
        /\ reopened' = ReopenedAfter(r)
        /\ retry' = retry
        /\ emitted' = r.emitted
        /\ probe' = r.probe
        /\ lastOp' = op

\* the component after its constructor: validateConfig({}) and the field defaults
Init ==
    /\ phase = "constructed"
    /\ searchData = DataEmpty
    /\ inputValue = <<>>
    /\ filteredResults = <<>>
    /\ resultItems = 0
    /\ selectedIndex = DEFAULT_SELECTED_INDEX
    /\ activeTab = "all"
    /\ isOpen = FALSE
    /\ config = validateConfig([minSearchLength |-> 0, debounceDelay |-> 0, maxResults |-> 0])
    /\ searchCache = <<>>
    /\ timers = <<>>
    /\ timeoutId = 0
    /\ now = 0
    /\ currentTheme = DEFAULT_THEME
    /\ dataTheme = NullTheme
    /\ themeAttribute = NullTheme
    /\ storedTheme = NullTheme
    /\ storageAvailable = TRUE
    /\ requestedTheme = NoRequest
    /\ sinceClear = FALSE
    /\ reopened = FALSE
    /\ retry = NoRetry
    /\ emitted = <<>>
    /\ probe = <<>>
    /\ lastOp = "new"

Rendered == phase # "constructed"

Listening == phase = "ready"

\* connectedCallback up to the await of loadData: render() rebuilds the shadow
\* DOM, so the input is empty and no result item carries a listener
ConnectedCallback ==
    /\ phase \in {"constructed", "disconnected"}
    /\ phase' = "loading"
    /\ Install([Cur EXCEPT !.inputValue = <<>>, !.resultItems = 0], "connect")

\* the primary fetch of loadData succeeds; initializeComponent then goes on to
\* attachEventListeners and initializeTheme
LoadData(data) ==
    /\ phase = "loading"
    /\ phase' = "ready"
    /\ Install(initializeTheme(Emit([Cur EXCEPT !.searchData = data,
                                                !.requestedTheme = NoRequest],
                                    [name |-> "data-loaded"])), "load")

\* variant: a failed fallback is logged and not announced
loadDataFailedSilently(s) == s

\* loadData, the catch of the fallback's failure
loadDataFailed(s) == Emit(s, [name |-> "data-load-error"])

\* loadDataFallback with its three responses ok
loadDataFallback(s, data) ==
    Emit([s EXCEPT !.searchData = data], [name |-> "data-loaded"])

\* the primary fetch of loadData fails (rejection, timeout, status not ok, bad
\* JSON): the catch block requests the three fallback endpoints
LoadPrimaryFails ==
    /\ phase = "loading"
    /\ phase' = "fallback"
    /\ Install(Cur, "primaryFailed")

\* the three fallback fetches succeed; initializeComponent goes on as in LoadData
LoadFallback(data) ==
    /\ phase = "fallback"
    /\ phase' = "ready"
    /\ Install(initializeTheme(loadDataFallback([Cur EXCEPT !.requestedTheme = NoRequest],
                                                data)), "fallbackLoad")

\* a fallback fetch fails; loadData swallows the error and initializeComponent
\* goes on with the data the component had
LoadFallbackFails ==
    /\ phase = "fallback"
    /\ phase' = "ready"
    /\ Install(initializeTheme(loadDataFailed([Cur EXCEPT !.requestedTheme = NoRequest])),
               "loadError")

\* disconnectedCallback: cleanup() removes the listeners and nothing else
DisconnectedCallback ==
    /\ phase = "ready"
    /\ phase' = "disconnected"
    /\ Install([Cur EXCEPT !.resultItems = 0], "disconnect")

\* attributeChangedCallback
SetAttribute(name, value) ==
    /\ Install(IF name # "theme" THEN handleAttributeChange(Cur, name, value)
               ELSE IF value = themeAttribute THEN Cur
               ELSE handleAttributeChange([Cur EXCEPT !.themeAttribute = value,
                                                      !.requestedTheme = NoRequest],
                                          name, value),
               "attribute")
    /\ UNCHANGED phase

\* public setTheme(theme)
SetTheme(theme) ==
    /\ Install([setTheme(Cur, theme, FALSE)
                   EXCEPT !.requestedTheme =
                       IF storageAvailable /\ theme \in Themes
                       THEN [theme |-> theme, earlier |-> FALSE] ELSE NoRequest],
               "setTheme")
    /\ UNCHANGED phase

\* public toggleTheme()
ToggleTheme ==
    /\ Install(toggleTheme([Cur EXCEPT !.requestedTheme = NoRequest]), "toggleTheme")
    /\ UNCHANGED phase

\* click on the page's #themeToggle button, which initializeTheme wired
ThemeButtonClick ==
    /\ Listening
    /\ Install(handleThemeToggle([Cur EXCEPT !.requestedTheme = NoRequest]),
               "themeButton")
    /\ UNCHANGED phase

\* new SmartSearchComponent() in a page whose localStorage is available or not:
\* the fields of the constructor, the stored theme of earlier instances
NewComponent(available) ==
    /\ phase' = "constructed"
    /\ Install([Cur EXCEPT
                   !.searchData = DataEmpty, !.inputValue = <<>>,
                   !.filteredResults = <<>>, !.resultItems = 0,
                   !.selectedIndex = DEFAULT_SELECTED_INDEX, !.activeTab = "all",
                   !.isOpen = FALSE,
                   !.config = validateConfig([minSearchLength |-> 0,
                                              debounceDelay |-> 0, maxResults |-> 0]),
                   !.searchCache = <<>>, !.timers = <<>>, !.timeoutId = 0,
                   !.currentTheme = DEFAULT_THEME, !.dataTheme = NullTheme,
                   !.themeAttribute = NullTheme, !.storageAvailable = available,
                   !.requestedTheme = [theme |-> requestedTheme.theme,
                                       earlier |-> requestedTheme.theme # NullTheme]],
               "new")

\* public search(query)
Search(query) ==
    /\ Rendered
    /\ Install(performSearch([Cur EXCEPT !.inputValue = query], query), "search")
    /\ UNCHANGED phase

\* public clear() and the clear button
Clear ==
    /\ Rendered
    /\ Install(handleClear(Cur), "clear")
    /\ UNCHANGED phase

\* public setTab(tab)
SetTab(tab) ==
    /\ Rendered
    /\ Install(setActiveTab(Cur, tab), "setTab")
    /\ UNCHANGED phase

TabClick(tab) ==
    /\ Listening
    /\ Install(handleTabClick(Cur, tab), "tabClick")
    /\ UNCHANGED phase

\* an input event with the new value of the field
Input(query) ==
    /\ Listening
    /\ \E r \in {handleSearch(Cur, query)} :
          Len(r.timers) <= MaxTimers /\ Install(r, "input")
    /\ UNCHANGED phase

Focus ==
    /\ Listening
    /\ Install(handleFocus(Cur), "focus")
    /\ UNCHANGED phase

KeyDown(key, target, tabLeaves) ==
    /\ Listening
    /\ target = "item" => resultItems > 0
    /\ \E r \in {DispatchKeyDown(Cur, key, target, tabLeaves)} :
          Len(r.timers) <= MaxTimers /\ Install(r, key)
    /\ UNCHANGED phase

\* mouseenter on a rendered result item: the listener stays on the item when the
\* dropdown closes, and whether a closed dropdown hides its items is decided by a
\* stylesheet fetched at run time, not by the handler
Hover(index) ==
    /\ Listening
    /\ index \in 0..(resultItems - 1)
    /\ Install(handleResultHover(Cur, index), "hover")
    /\ UNCHANGED phase

\* click on a rendered result item (see Hover)
ResultClick(index) ==
    /\ Listening
    /\ index \in 0..(resultItems - 1)
    /\ Len(timers) < MaxTimers
    /\ Install(handleResultClick(Cur, index), "click")
    /\ UNCHANGED phase

ClickOutside ==
    /\ Listening
    /\ Install(handleClickOutside(Cur), "clickOutside")
    /\ UNCHANGED phase

\* the timer that fires next: the earliest due, the earliest created among equals
NextTimer ==
    CHOOSE i \in 1..Len(timers) :
        \A j \in 1..Len(timers) :
            timers[i].due < timers[j].due \/ (timers[i].due = timers[j].due /\ i <= j)

\* a timer callback runs: the debounced performSearch or the delayed closeDropdown
TimerFire ==
    /\ timers # <<>>
    /\ timers[NextTimer].due <= now
    /\ LET tm == timers[NextTimer]
           s == [Cur EXCEPT !.timers = RemoveAt(timers, NextTimer)]
       IN  IF tm.kind = "debounce"
           THEN Install(performSearch(s, tm.query), "debounceFire")
           ELSE Install(closeDropdown(s), "closeFire")
    /\ UNCHANGED phase

\* time passes; a timer fires when it is due, never later
Advance(d, limit) ==
    /\ now + d <= limit
    /\ \A i \in 1..Len(timers) : timers[i].due >= now + d
    /\ Install([Cur EXCEPT !.now = now + d], "advance")
    /\ UNCHANGED phase

\* Selection state machine: searches, keyboard, mouse, clear and the delayed close
Next ==
    \/ ConnectedCallback
    \/ \E d \in Snapshots : LoadData(d)
    \/ \E q \in SelQueries : Search(q)
    \/ Clear
    \/ \E k \in Keys, target \in {"input", "item"}, tabLeaves \in BOOLEAN :
          KeyDown(k, target, tabLeaves)
    \/ \E i \in 0..2 : Hover(i)
    \/ \E i \in 0..2 : ResultClick(i)
    \/ ClickOutside
    \/ TimerFire
    \/ Advance(SELECT_CLOSE_DELAY, MaxTicks * SELECT_CLOSE_DELAY)

Spec == Init /\ [][Next]_vars

----------------------------------------------------------------------------
(* Search engine: searches, tabs, focus and data replacement               *)

NextSearch ==
    \/ ConnectedCallback
    \/ \E d \in Snapshots : LoadData(d)
    \/ DisconnectedCallback
    \/ \E q \in SearchQueries : Search(q)
    \/ \E tab \in SearchTabs : SetTab(tab)
    \/ \E tab \in SearchTabs : TabClick(tab)
    \/ Focus

SpecSearch == Init /\ [][NextSearch]_vars

----------------------------------------------------------------------------
(* Cache capacity: distinct keys are offered in a fixed order              *)

QueryIndex(q) == 10 * DigitValue(q[1]) + DigitValue(q[2])

Ascending(cache) ==
    \A i \in 1..(Len(cache) - 1) : QueryIndex(cache[i].query) < QueryIndex(cache[i + 1].query)

Highest(cache) == IF cache = <<>> THEN 0 ELSE QueryIndex(cache[Len(cache)].query)

Oldest(cache) == IF cache = <<>> THEN 0 ELSE QueryIndex(cache[1].query)

\* search(FillQuery(k)) for the oldest or the newest key of the cache (hits), the
\* next new key or, while the keys are still in ascending order, the key evicted last
FillSearch(k) ==
    /\ \/ k \in {Oldest(searchCache), Highest(searchCache)}
       \/ (Ascending(searchCache) /\ k \in {Highest(searchCache) + 1, Oldest(searchCache) - 1})
    /\ Search(FillQuery(k))

NextFifo ==
    \/ ConnectedCallback
    \/ LoadData(DataFifo)
    \/ \E k \in 1..MaxFill : FillSearch(k)

SpecFifo == Init /\ [][NextFifo]_vars

----------------------------------------------------------------------------
(* Debounced input and teardown                                            *)

NextDebounce ==
    \/ (phase = "constructed" /\ ConnectedCallback)
    \/ LoadData(DataFull)
    \/ DisconnectedCallback
    \/ \E v \in DelayValues : SetAttribute("debounce-delay", v)
    \/ \E q \in TimeQueries : Input(q)
    \/ TimerFire
    \/ Advance(SmallStep, MaxSmallSteps * SmallStep)

SpecDebounce == Init /\ [][NextDebounce]_vars

----------------------------------------------------------------------------
(* Cache expiry                                                            *)

NextExpiry ==
    \/ (phase = "constructed" /\ ConnectedCallback)
    \/ LoadData(DataFull)
    \/ \E q \in TimeQueries : Search(q)
    \/ (now % CACHE_EXPIRY_MS < MaxExpirySteps /\ Advance(1, CACHE_EXPIRY_MS + MaxExpirySteps))
    \/ Advance(CACHE_EXPIRY_MS, CACHE_EXPIRY_MS + MaxExpirySteps)

SpecExpiry == Init /\ [][NextExpiry]_vars

\* max-results and tab changes between searches, with clear and ArrowDown
NextConfig ==
    \/ (phase = "constructed" /\ ConnectedCallback)
    \/ \E data \in {DataWide, DataBad} : LoadData(data)
    \/ \E v \in MaxResultsValues : SetAttribute("max-results", v)
    \/ \E q \in ConfigQueries : Search(q)
    \/ \E tab \in ConfigTabs : SetTab(tab)
    \/ \E tab \in ConfigTabs : TabClick(tab)
    \/ Clear
    \/ \E target \in {"input", "item"} : KeyDown("ArrowDown", target, FALSE)

SpecConfig == Init /\ [][NextConfig]_vars

\* typing, the clear button, focus and the keys of the input, with the debounce timer
NextSession ==
    \/ (phase = "constructed" /\ ConnectedCallback)
    \/ LoadData(DataFull)
    \/ \E q \in TimeQueries : Input(q)
    \/ Clear
    \/ Focus
    \/ \E k \in {"ArrowDown", "Escape"} : KeyDown(k, "input", FALSE)
    \/ ClickOutside
    \/ TimerFire
    \/ Advance(SmallStep, MaxSmallSteps * SmallStep)

SpecSession == Init /\ [][NextSession]_vars


\* searches over one record, for the matching rules of matchesSearch
NextMatch ==
    \/ (phase = "constructed" /\ ConnectedCallback)
    \/ \E data \in MatchSnapshots : LoadData(data)
    \/ \E v \in MinLengthValues : SetAttribute("min-search-length", v)
    \/ (Len(searchCache) < MaxMatchSearches /\ \E q \in MatchQueries : Search(q))

SpecMatch == Init /\ [][NextMatch]_vars


\* attribute changes before and after the component is connected
NextAttributes ==
    \/ (phase = "constructed" /\ ConnectedCallback)
    \/ LoadData(DataFull)
    \/ \E name \in NumericAttributes, v \in AttributeValues : SetAttribute(name, v)

SpecAttributes == Init /\ [][NextAttributes]_vars


\* data loads with their outcomes, searches on whatever was loaded, reconnection
NextLoad ==
    \/ ConnectedCallback
    \/ \E data \in Snapshots : LoadData(data)
    \/ LoadPrimaryFails
    \/ \E data \in Snapshots : LoadFallback(data)
    \/ LoadFallbackFails
    \/ DisconnectedCallback
    \/ \E q \in SelQueries : Search(q)
    \/ Clear

\* fetchWithTimeout aborts a fetch that has not answered in time, so every
\* request of a load is settled
SpecLoad ==
    /\ Init /\ [][NextLoad]_vars
    /\ WF_vars(LoadPrimaryFails \/ \E data \in Snapshots : LoadData(data))
    /\ WF_vars(LoadFallbackFails \/ \E data \in Snapshots : LoadFallback(data))

\* retry(operation, maxRetries, baseDelay) is called; calls share no state, so one
\* call is followed to its end
RetryCall(operation, maxRetries, baseDelay) ==
    /\ retry.status = "idle"
    /\ retry' = retryLoop([NoRetry EXCEPT !.operation = operation,
                                          !.maxRetries = maxRetries,
                                          !.baseDelay = baseDelay])
    /\ UNCHANGED searchVars

\* the operation is invoked and settles
RetryAttempt ==
    /\ retry.status = "calling"
    /\ retry' = retryAttempt(retry)
    /\ UNCHANGED searchVars

\* AsyncUtils.delay(delay) resolves and the loop goes to its next pass
RetryDelayElapsed ==
    /\ retry.status = "waiting"
    /\ retry' = retryLoop([retry EXCEPT !.attempt = @ + 1])
    /\ UNCHANGED searchVars

\* operations: what each of the first MaxRetries + 2 invocations does
Operations == [1..(MaxRetries + 2) -> Outcomes]

RetryCounts == -1..MaxRetries

BaseDelays == {100, 1000}

NextRetry ==
    \/ \E operation \in Operations, maxRetries \in RetryCounts, baseDelay \in BaseDelays :
          RetryCall(operation, maxRetries, baseDelay)
    \/ RetryAttempt
    \/ RetryDelayElapsed

SpecRetry == Init /\ [][NextRetry]_vars

\* values of the theme attribute: absent, empty, valid and invalid
ThemeAttributes == {NullTheme, "", "light", "dark", "blue"}

\* arguments of setTheme: valid and invalid
ThemeArguments == {"light", "dark", "blue"}

\* themes: instances created one after another, attribute and method calls
NextTheme ==
    \/ ConnectedCallback
    \/ LoadData(DataEmpty)
    \/ DisconnectedCallback
    \/ \E v \in ThemeAttributes : SetAttribute("theme", v)
    \/ \E theme \in ThemeArguments : SetTheme(theme)
    \/ ToggleTheme
    \/ ThemeButtonClick
    \/ \E available \in BOOLEAN : NewComponent(available)

SpecTheme == Init /\ [][NextTheme]_vars

\* tab requests while a typed query waits for its debounce
NextTabs ==
    \/ (phase = "constructed" /\ ConnectedCallback)
    \/ LoadData(DataFull)
    \/ \E q \in TimeQueries : Input(q)
    \/ \E tab \in SearchTabs : SetTab(tab)
    \/ \E tab \in SearchTabs : TabClick(tab)
    \/ TimerFire
    \/ Advance(SmallStep, MaxSmallSteps * SmallStep)

SpecTabs == Init /\ [][NextTabs]_vars

\* a selection can start while the clock is within MaxTicks delays
SelectionAllowed == now <= MaxTicks * SELECT_CLOSE_DELAY

\* selecting by click or Enter, with the delayed close always free to run
NextSelect ==
    \/ (phase = "constructed" /\ ConnectedCallback)
    \/ LoadData(DataFull)
    \/ \E q \in TimeQueries : Search(q)
    \/ \E k \in {"ArrowDown", "Escape"}, target \in {"input", "item"} :
          KeyDown(k, target, FALSE)
    \/ (SelectionAllowed /\ \E target \in {"input", "item"} : KeyDown("Enter", target, FALSE))
    \/ (SelectionAllowed /\ \E i \in 0..2 : ResultClick(i))
    \/ TimerFire
    \/ Advance(SELECT_CLOSE_DELAY, (MaxTicks + 1) * SELECT_CLOSE_DELAY)

\* the event loop runs a due timer callback, and time passes
SpecSelect ==
    /\ Init /\ [][NextSelect]_vars
    /\ WF_vars(TimerFire)
    /\ WF_vars(Advance(SELECT_CLOSE_DELAY, (MaxTicks + 1) * SELECT_CLOSE_DELAY))

----------------------------------------------------------------------------
(* Claims                                                                  *)

\* the step that led to this state replaced the result list: it ran performSearch
\* (any of its four paths) or handleClear
ReplacedResults == probe # <<>> \/ lastOp = "clear"

\* C1: after any sequence of operations selectedIndex lies in [-1, n - 1], where n
\* is the length of the current result list
SelectedIndexInBounds ==
    /\ selectedIndex >= DEFAULT_SELECTED_INDEX
    /\ selectedIndex <= Len(filteredResults) - 1

\* C2: immediately after an operation that replaced the result list (a cached, a
\* computed, a too-short or a failed search, or a clear) selectedIndex is -1,
\* whether the new list is empty or not and whether the dropdown is open or not
SelectionResetOnReplace ==
    ReplacedResults => selectedIndex = DEFAULT_SELECTED_INDEX

\* C3: a search whose normalized (lowercased, trimmed) query is shorter than the
\* minimum search length neither reads nor writes the cache nor invokes the
\* matcher, and it leaves the result list empty
ShortQuerySkipsSearch ==
    \A i \in 1..Len(probe) :
        Len(normalizeSearchQuery(probe[i].query)) < config.minSearchLength =>
            /\ ~probe[i].read
            /\ ~probe[i].wrote
            /\ probe[i].matcher = 0
            /\ (i = Len(probe) => filteredResults = <<>>)

\* the list a search computes from nothing but the data snapshot, the query and the tab
FreshResults(data, query, tab) ==
    IF Len(query) < config.minSearchLength \/ SearchThrows(data, query, tab)
    THEN <<>>
    ELSE ComputeResults(data, query, tab, config.maxResults)

\* C5: with the configuration fixed, the list a search leaves is the function of
\* the current data snapshot, the query and the tab, whatever searches or data
\* replacements came before
ResultsDependOnInputsOnly ==
    lastOp = "search" => filteredResults = FreshResults(searchData, inputValue, activeTab)

\* C10: disconnectedCallback cancels the pending debounce timer: once the
\* component is disconnected no debounce timer is pending and no debounced
\* search runs
TeardownCancelsDebounce ==
    phase = "disconnected" =>
        /\ \A i \in 1..Len(timers) : timers[i].kind # "debounce"
        /\ lastOp # "debounceFire"

CacheIsBoundedFifo ==
    [][/\ Len(searchCache') <= SEARCH_CACHE_SIZE
       /\ (Len(probe') = 1 =>
             LET rec == probe'[1]
                 n == Len(searchCache)
                 isNew == CacheIndex(searchCache, CacheKey(rec.query, activeTab)) = 0
             IN  /\ rec.hit => searchCache' = searchCache
                 /\ (rec.wrote /\ isNew /\ n = SEARCH_CACHE_SIZE) =>
                        /\ Len(searchCache') = SEARCH_CACHE_SIZE
                        /\ SubSeq(searchCache', 1, n - 1) = Tail(searchCache)
                        /\ searchCache'[n].key = CacheKey(rec.query, activeTab)
                 /\ (rec.wrote /\ isNew /\ n < SEARCH_CACHE_SIZE) =>
                        /\ Len(searchCache') = n + 1
                        /\ SubSeq(searchCache', 1, n) = searchCache
                        /\ searchCache'[n + 1].key = CacheKey(rec.query, activeTab))]_vars

\* the full cache has just evicted its first key (after a hit on it) for a new one
CacheEvictedOldest ==
    /\ Len(searchCache) = SEARCH_CACHE_SIZE
    /\ Oldest(searchCache) = 2
    /\ Highest(searchCache) = SEARCH_CACHE_SIZE + 1
    /\ Len(probe) = 1 /\ probe[1].wrote

\* number of cache writes made by the searches of one handler
Writes(p) == Cardinality({i \in 1..Len(p) : p[i].wrote})

\* C7: a change of the active tab empties the whole cache: what the cache holds
\* afterwards was computed and written after the change, under the new tab, and
\* the first search after the change is never a hit, so that after A -> B -> A a
\* query once cached under A is computed again
TabChangeEmptiesCache ==
    [][activeTab' # activeTab =>
          /\ Len(searchCache') <= Writes(probe')
          /\ \A i \in 1..Len(searchCache') : searchCache'[i].tab = activeTab'
          /\ \A i \in 1..Len(probe') :
                probe'[i].hit => \E j \in 1..(i - 1) : probe'[j].wrote]_vars

\* back on the first tab, the query of the input is computed again and cached
TabReturnRecomputes ==
    /\ lastOp \in {"setTab", "tabClick"}
    /\ activeTab = "all"
    /\ probe # <<>> /\ ~probe[1].hit /\ probe[1].wrote /\ probe[1].matcher > 0
    /\ filteredResults # <<>>

\* C8: a search whose key has a cache entry older than CACHE_EXPIRY_MS does not
\* return it: the lookup misses, the entry and every other expired entry are
\* deleted in that search, and the list is computed again and cached afresh
ExpiredEntryNeverReturned ==
    [][Len(probe') = 1 =>
          LET rec == probe'[1]
              k == CacheIndex(searchCache, CacheKey(rec.query, activeTab))
          IN  (k # 0 /\ now - searchCache[k].timestamp > CACHE_EXPIRY_MS) =>
                 /\ ~rec.hit
                 /\ rec.matcher = Len(ScanOrder(searchData, activeTab))
                 /\ \A j \in 1..Len(searchCache') :
                       now' - searchCache'[j].timestamp <= CACHE_EXPIRY_MS
                 /\ filteredResults' =
                       ComputeResults(searchData, rec.query, activeTab, config.maxResults)
                 /\ \E j \in 1..Len(searchCache') :
                       /\ searchCache'[j].key = CacheKey(rec.query, activeTab)
                       /\ searchCache'[j].timestamp = now'
                       /\ searchCache'[j].results = filteredResults']_vars

\* a search found its entry expired by one millisecond and computed the list again
ExpiredEntryRecomputed ==
    /\ lastOp = "search"
    /\ now = CACHE_EXPIRY_MS + 1
    /\ Len(probe) = 1 /\ probe[1].expired /\ ~probe[1].hit /\ probe[1].wrote
    /\ filteredResults # <<>>

\* the pending debounce timers
Debounces(ts) == SelectSeq(ts, LAMBDA tm : tm.kind = "debounce")

\* C9: at most one debounced search is pending; an input event performs no
\* search and leaves exactly one, for its own query, due one debounce delay
\* later; nothing but a later input event or the timer's firing touches it; the
\* timer fires exactly when due and performs exactly one search, with that
\* query: a burst of input events ends in one search, one delay after the last
\* event and with its query
DebounceRunsLastQueryOnce ==
    [][/\ Len(Debounces(timers')) <= 1
       /\ lastOp' = "input" =>
             /\ probe' = <<>>
             /\ Len(Debounces(timers')) = 1
             /\ Debounces(timers')[1].query = inputValue'
             /\ Debounces(timers')[1].due = now + config.debounceDelay
       /\ lastOp' = "debounceFire" =>
             /\ Len(Debounces(timers)) = 1
             /\ Debounces(timers') = <<>>
             /\ now' = Debounces(timers)[1].due
             /\ Len(probe') = 1
             /\ probe'[1].query = Debounces(timers)[1].query
       /\ lastOp' \notin {"input", "debounceFire"} =>
             /\ probe' = <<>>
             /\ Debounces(timers') = Debounces(timers)]_vars

\* the timer of a second input event, made before the first delay had elapsed,
\* has fired and searched for the query of that event
BurstSearchedOnce ==
    /\ lastOp = "debounceFire"
    /\ timeoutId = 2
    /\ now = DEFAULT_DEBOUNCE_DELAY + SmallStep
    /\ config.debounceDelay = DEFAULT_DEBOUNCE_DELAY
    /\ Len(probe) = 1 /\ probe[1].query = inputValue
    /\ timers = <<>>

\* C11 (as stated): immediately after a search, the number of results is at most
\* the max-results value configured at that moment
ResultsWithinMaxResults ==
    lastOp = "search" => Len(filteredResults) <= config.maxResults

\* the records of a list that match the query, in the order of the list
Matching(list, query, fields) ==
    SelectSeq(list, LAMBDA item : matchesSearch(item, query, fields))

\* the combined list of the 'all' tab before the cap
CombinedMatches(data, query) ==
    LET accounts == Matching(data.accounts, query, AccountFields)
        customers == Matching(data.customers, query, CustomerFields)
        transactions == Matching(data.transactions, query, TransactionFields)
    IN  [i \in 1..Len(accounts) |-> MakeResult(accounts[i], "account")]
            \o [i \in 1..Len(customers) |-> MakeResult(customers[i], "customer")]
            \o [i \in 1..Len(transactions) |-> MakeResult(transactions[i], "transaction")]

\* the search of the last step was a cache miss that computed its results
ComputedSearch ==
    /\ lastOp = "search"
    /\ Len(probe) = 1
    /\ ~probe[1].short /\ ~probe[1].hit /\ ~probe[1].threw

\* C12: on a cache miss with the 'all' tab the result list is the first maxResults
\* elements of matching accounts, then customers, then transactions, each in data
\* order; the cap cuts the combined list once
CapOnCombinedList ==
    (ComputedSearch /\ activeTab = "all") =>
        LET combined == CombinedMatches(searchData, probe[1].query)
        IN  /\ Len(filteredResults) = Min(Len(combined), config.maxResults)
            /\ \A i \in 1..Len(filteredResults) : filteredResults[i] = combined[i]

\* C12 witness: a miss on 'all' whose cap of two keeps the two accounts and drops
\* the customer and the transaction
CapCutsCombinedList ==
    /\ ComputedSearch /\ activeTab = "all"
    /\ config.maxResults = 2
    /\ Len(CombinedMatches(searchData, probe[1].query)) = 4
    /\ filteredResults = <<MakeResult(Account1, "account"), MakeResult(Account3, "account")>>

\* C13: after a search under a category tab every result has the type of the tab,
\* and a tab switch with a query in the input replaces the list by the results of
\* that query under the new tab
ResultsFollowActiveTab ==
    /\ (probe # <<>> /\ activeTab # "all") =>
            \A i \in 1..Len(filteredResults) : filteredResults[i].type = activeTab
    /\ (/\ lastOp \in {"setTab", "tabClick"}
        /\ \E i \in 1..Len(emitted) : emitted[i].name = "tab-changed"
        /\ isNonEmptyString(inputValue)) =>
            filteredResults =
                FreshResults(searchData, normalizeSearchQuery(inputValue), activeTab)

\* C13 witness: a switch from 'all' to a category tab left the matches of that
\* category alone, fewer than the list of 'all' held
TabSwitchNarrowedResults ==
    /\ lastOp \in {"setTab", "tabClick"}
    /\ activeTab = "account"
    /\ \E i \in 1..Len(emitted) : emitted[i].name = "tab-changed"
    /\ filteredResults = <<MakeResult(Account1, "account"), MakeResult(Account3, "account")>>

\* C14 (as stated): whenever the dropdown is closed, no result is selected
ClosedHasNoSelection ==
    ~isOpen => selectedIndex = DEFAULT_SELECTED_INDEX

\* C15 (as stated): the dropdown goes from closed to open only in a state where
\* the input holds a query or the result list holds a result
OpensOnlyWithQueryOrResults ==
    [][(~isOpen /\ isOpen') => (inputValue' # <<>> \/ filteredResults' # <<>>)]_vars

\* C16: while the dropdown is open with n results, ArrowDown at selectedIndex = n - 1
\* and ArrowUp at selectedIndex = -1 leave selectedIndex unchanged, and no
\* navigation step wraps: ArrowDown never lowers the index, ArrowUp never raises it
NavigationStopsAtEnds ==
    [][/\ (lastOp' = "ArrowDown" /\ isOpen /\ selectedIndex = Len(filteredResults) - 1)
            => selectedIndex' = selectedIndex
       /\ (lastOp' = "ArrowUp" /\ isOpen /\ selectedIndex = DEFAULT_SELECTED_INDEX)
            => selectedIndex' = selectedIndex
       /\ (lastOp' = "ArrowDown" /\ isOpen) => selectedIndex' >= selectedIndex
       /\ (lastOp' = "ArrowUp" /\ isOpen) => selectedIndex' <= selectedIndex]_vars

\* C16 witness: ArrowDown was pressed and the selection rests on the last of three
\* results of the open dropdown
NavigatedToLastResult ==
    /\ lastOp = "ArrowDown"
    /\ isOpen
    /\ Len(filteredResults) = 3
    /\ selectedIndex = Len(filteredResults) - 1

\* C17 (as stated): once a result is selected, a navigation step of the open
\* dropdown keeps selectedIndex within [0, n - 1]; ArrowUp at index 0 is a no-op
NavigationKeepsSelection ==
    [][(/\ lastOp' \in {"ArrowDown", "ArrowUp"}
        /\ isOpen
        /\ selectedIndex \in 0..(Len(filteredResults) - 1))
            => selectedIndex' \in 0..(Len(filteredResults') - 1)]_vars

\* the events of the last step named name
Emitted(name) == {i \in 1..Len(emitted) : emitted[i].name = name}

\* C18: a click on result i, or Enter while the dropdown is open and
\* 0 <= selectedIndex < n, emits result-selected carrying exactly that result and
\* leaves the dropdown as it was, so that its dropdown-closed comes after; Enter
\* with selectedIndex = -1 emits no result-selected; and once a result has been
\* selected the dropdown is eventually closed
SelectionEmitsThenCloses ==
    /\ [][/\ \A i \in 0..2 :
                (ResultClick(i) /\ i < Len(filteredResults)) =>
                    /\ emitted' = <<[name |-> "result-selected",
                                     result |-> filteredResults[i + 1]]>>
                    /\ isOpen' = isOpen
          /\ (/\ lastOp' = "Enter" /\ isOpen
              /\ selectedIndex \in 0..(Len(filteredResults) - 1)) =>
                    /\ emitted' # <<>>
                    /\ \A j \in 1..Len(emitted') :
                          emitted'[j] = [name |-> "result-selected",
                                         result |-> filteredResults[selectedIndex + 1]]
                    /\ isOpen' = isOpen
          /\ (lastOp' = "Enter" /\ selectedIndex = DEFAULT_SELECTED_INDEX) =>
                    /\ \A j \in 1..Len(emitted') : emitted'[j].name # "result-selected"
                    /\ timers' = timers]_vars
    /\ (Emitted("result-selected") # {}) ~> ~isOpen

\* C18 witness: the delayed close of a selection ran and closed the open dropdown
SelectionClosedDropdown ==
    /\ lastOp = "closeFire"
    /\ ~isOpen
    /\ Emitted("dropdown-closed") # {}

SearchCompleted(p) ==
    p # <<>> /\ ~p[Len(p)].short /\ ~p[Len(p)].threw

component == <<phase, searchData, inputValue, filteredResults, resultItems,
               selectedIndex, activeTab, isOpen, config, searchCache, timers, timeoutId>>

\* C21: Escape or a click outside while the dropdown is open closes it, resets
\* selectedIndex to -1 and emits exactly one dropdown-closed; while the dropdown is
\* closed they change no field and emit no event
EscapeOrOutsideCloses ==
    [][lastOp' \in {"Escape", "clickOutside"} =>
          IF isOpen
          THEN /\ ~isOpen'
               /\ selectedIndex' = DEFAULT_SELECTED_INDEX
               /\ Cardinality({i \in 1..Len(emitted') :
                                  emitted'[i].name = "dropdown-closed"}) = 1
          ELSE /\ emitted' = <<>>
               /\ UNCHANGED component]_vars

\* C21 witness: Escape closed an open dropdown that had a selection
EscapeClosedDropdown ==
    /\ lastOp = "Escape"
    /\ ~isOpen
    /\ selectedIndex = DEFAULT_SELECTED_INDEX
    /\ emitted = <<[name |-> "dropdown-closed"]>>

\* C22 (as stated): re-opening a closed dropdown by focus or ArrowDown while the
\* input holds a query and a result list is held from before re-runs the search:
\* a search is performed and search-performed is emitted
ReopenRerunsSearch ==
    [][(/\ lastOp' \in {"focus", "ArrowDown"}
        /\ ~isOpen /\ isOpen'
        /\ inputValue # <<>>
        /\ filteredResults # <<>>)
            => /\ probe' # <<>>
               /\ \E i \in 1..Len(emitted') : emitted'[i].name = "search-performed"]_vars

\* C23: a search in which matching throws returns to its caller with the result
\* list empty and nothing rendered, emits one search-performed with resultCount 0,
\* and stores nothing in the cache: every entry of the cache was there before and
\* none is for the failed query
FailedSearchIsZeroResults ==
    [][(probe' # <<>> /\ probe'[Len(probe')].threw) =>
          /\ filteredResults' = <<>>
          /\ resultItems' = 0
          /\ \A i \in 1..Len(searchCache') :
                \E j \in 1..Len(searchCache) : searchCache[j] = searchCache'[i]
          /\ CacheIndex(searchCache', CacheKey(probe'[Len(probe')].query, activeTab')) = 0
          /\ LET performed == {i \in 1..Len(emitted') :
                                  emitted'[i].name = "search-performed"}
             IN  /\ Cardinality(performed) = Len(probe')
                 /\ \E i \in performed :
                       /\ \A j \in performed : j <= i
                       /\ emitted'[i].resultCount = 0]_vars

\* C23 witness: a search failed while the cache held the entry of an earlier search
FailedSearchKeptCache ==
    /\ lastOp = "search"
    /\ probe[1].threw
    /\ filteredResults = <<>>
    /\ Len(searchCache) = 1

\* the snapshot without the records on which matching the query throws
WithoutThrowing(data, query) ==
    [accounts |-> SelectSeq(data.accounts, LAMBDA r : ~matchesSearchThrows(r, query)),
     customers |-> SelectSeq(data.customers, LAMBDA r : ~matchesSearchThrows(r, query)),
     transactions |-> SelectSeq(data.transactions,
                                LAMBDA r : ~matchesSearchThrows(r, query))]

\* C24 (as stated): a record on which matching throws is skipped alone; a search
\* that computes its results returns the matches among the other records
ThrowingRecordSkippedAlone ==
    (/\ lastOp = "search"
     /\ Len(inputValue) >= config.minSearchLength
     /\ ~probe[1].hit) =>
        filteredResults = ComputeResults(WithoutThrowing(searchData, inputValue),
                                         inputValue, activeTab, config.maxResults)

\* the query occupies a whole run of digits of the value: no digit before it and
\* no digit after it
WholeNumber(v, q) ==
    \E i \in 1..Len(v) :
        /\ OccursAt(v, q, i)
        /\ (i = 1 \/ ~IsDigit(v[i - 1]))
        /\ (i + Len(q) - 1 = Len(v) \/ ~IsDigit(v[i + Len(q)]))

\* the search of the last step ran the matcher on the one customer of the snapshot
MatchedCustomer ==
    /\ lastOp = "search"
    /\ Len(probe) = 1 /\ probe[1].matcher = 1
    /\ Len(searchData.customers) = 1 /\ searchData.accounts = <<>>

\* C25 (as stated): an all-digit query matches an identifier field only at the end
\* of the value or as a number flanked by non-digits, never as digits embedded in
\* a longer number (the other fields of the record hold no digit)
EmbeddedDigitsNeverMatch ==
    (MatchedCustomer /\ IsAllDigits(normalizeSearchQuery(inputValue))
        /\ filteredResults # <<>>) =>
        LET v == ToLower(searchData.customers[1].customerId)
            q == normalizeSearchQuery(inputValue)
        IN  EndsWith(v, q) \/ WholeNumber(v, q)

\* C26 (as stated): on an identifier field query "123" matches the value
\* "CUST-123" and does not match the value "4567123"
NumericIdentifierUsesBoundary ==
    (MatchedCustomer /\ normalizeSearchQuery(inputValue) = <<"1", "2", "3">>) =>
        /\ searchData.customers[1].customerId = <<"C", "U", "S", "T", "-", "1", "2", "3">>
              => filteredResults # <<>>
        /\ searchData.customers[1].customerId = <<"4", "5", "6", "7", "1", "2", "3">>
              => filteredResults = <<>>

\* the query is the value, a prefix of the value or a prefix of one of its words,
\* or it is all digits on an identifier field and ends the value or stands
\* between non-digits
MatchesWithoutContainment(v, q, field) ==
    \/ v = q
    \/ \E i \in 1..Len(v) : OccursAt(v, q, i) /\ (i = 1 \/ IsSpace(v[i - 1]))
    \/ /\ IsAllDigits(q) /\ IsIdField(field)
       /\ (EndsWith(v, q) \/ BoundaryMatch(v, q))

\* C27: a query of fewer than 3 characters matches a record only through a field
\* it equals, prefixes, word-prefixes or meets by the numeric identifier rule; a
\* record returned through containment alone has a query of 3 or more characters
\* contained in a field that is not an identifier field or with a query that is
\* not all digits
ShortQueryNeverMatchesBySubstring ==
    (MatchedCustomer /\ filteredResults # <<>>) =>
        LET rec == searchData.customers[1]
            q == normalizeSearchQuery(inputValue)
            direct == \E f \in CustomerFields :
                          MatchesWithoutContainment(ToLower(rec[f]), q, f)
        IN  /\ Len(q) < 3 => direct
            /\ ~direct =>
                  /\ Len(q) >= 3
                  /\ \E f \in CustomerFields :
                        /\ Includes(ToLower(rec[f]), q)
                        /\ (~IsIdField(f) \/ ~IsAllDigits(q))

\* C27 witness: a two-character query lying inside a field, at no word start, did
\* not return the record
ContainedShortQueryRejected ==
    /\ MatchedCustomer
    /\ Len(normalizeSearchQuery(inputValue)) = 2
    /\ Includes(ToLower(searchData.customers[1].lastName), normalizeSearchQuery(inputValue))
    /\ filteredResults = <<>>

\* the floor and the default of a numeric attribute
FloorOf(name) == IF name = "debounce-delay" THEN MIN_DEBOUNCE_DELAY ELSE MIN_CONFIG_VALUE

DefaultOf(name) ==
    CASE name = "min-search-length" -> DEFAULT_MIN_SEARCH_LENGTH
      [] name = "debounce-delay" -> DEFAULT_DEBOUNCE_DELAY
      [] name = "max-results" -> DEFAULT_MAX_RESULTS

ConfigField(c, name) ==
    CASE name = "min-search-length" -> c.minSearchLength
      [] name = "debounce-delay" -> c.debounceDelay
      [] name = "max-results" -> c.maxResults

\* C28: after any sequence of attribute changes minSearchLength >= 1,
\* maxResults >= 1 and debounceDelay >= 100; a change returns without an event, a
\* number at or above the floor is taken as it is, any other value is replaced by
\* the default or the floor, and the other fields are left alone
ConfigKeepsFloors ==
    /\ [](/\ config.minSearchLength >= 1
          /\ config.maxResults >= 1
          /\ config.debounceDelay >= 100)
    /\ [][\A name \in NumericAttributes, v \in AttributeValues :
            SetAttribute(name, v) =>
                /\ emitted' = <<>>
                /\ IF ~ParseInt(v).nan /\ ParseInt(v).val >= FloorOf(name)
                   THEN ConfigField(config', name) = ParseInt(v).val
                   ELSE ConfigField(config', name) \in {DefaultOf(name), FloorOf(name)}
                /\ \A other \in NumericAttributes \ {name} :
                      ConfigField(config', other) = ConfigField(config, other)]_vars

\* C28 witness: negative values brought the minimum length and the debounce delay
\* to their floors
ConfigAtFloors ==
    /\ lastOp = "attribute"
    /\ config.minSearchLength = MIN_CONFIG_VALUE
    /\ config.debounceDelay = MIN_DEBOUNCE_DELAY

\* the positions of the search-performed events of the last step
Performed == {i \in 1..Len(emitted) : emitted[i].name = "search-performed"}

\* C29: every executed search emits exactly one search-performed: the k-th such
\* event of a step belongs to the k-th search of the step, its resultCount is the
\* length of the list that search installed and its activeTab the tab active then
OneEventPerSearch ==
    /\ Cardinality(Performed) = Len(probe)
    /\ \A i \in Performed :
          LET k == Cardinality({j \in Performed : j <= i})
          IN  /\ emitted[i].query = probe[k].query
              /\ emitted[i].resultCount = probe[k].installed
              /\ emitted[i].activeTab = probe[k].tab
    /\ probe # <<>> =>
          /\ probe[Len(probe)].installed = Len(filteredResults)
          /\ probe[Len(probe)].tab = activeTab

\* C29 witness: a tab click ran two searches and emitted two search-performed
\* events, the second with a positive resultCount
TabClickSearchedTwice ==
    /\ lastOp = "tabClick"
    /\ Len(probe) = 2
    /\ Cardinality(Performed) = 2
    /\ filteredResults # <<>>

\* C30 (as stated): a setTab or tab click for a tab other than the active one
\* makes it the active tab and emits exactly one tab-changed carrying it; a request
\* for the active tab emits no tab-changed and leaves the cache and the results
\* untouched
TabRequestDecidesTab ==
    [][\A t \in SearchTabs :
          (SetTab(t) \/ TabClick(t)) =>
              /\ activeTab' = t
              /\ IF t # activeTab
                 THEN /\ Cardinality(Emitted("tab-changed")') = 1
                      /\ \A i \in Emitted("tab-changed")' : emitted'[i].activeTab = t
                 ELSE /\ Emitted("tab-changed")' = {}
                      /\ searchCache' = searchCache
                      /\ filteredResults' = filteredResults]_vars

\* C31: after clear(), from any state, the input and the result list are empty,
\* selectedIndex is -1, the active tab is "all", the dropdown is closed, and the
\* step emitted exactly one search-cleared, after every other event it caused
ClearResetsEverything ==
    [][Clear =>
          /\ inputValue' = <<>>
          /\ filteredResults' = <<>>
          /\ selectedIndex' = DEFAULT_SELECTED_INDEX
          /\ activeTab' = "all"
          /\ ~isOpen'
          /\ Cardinality(Emitted("search-cleared")') = 1
          /\ emitted'[Len(emitted')].name = "search-cleared"
          /\ \A i \in 1..(Len(emitted') - 1) :
                emitted'[i].name \in {"tab-changed", "dropdown-closed"}]_vars

\* C31 witness: clear left another tab and closed an open dropdown
ClearLeftTabAndClosed ==
    /\ lastOp = "clear"
    /\ inputValue = <<>> /\ filteredResults = <<>> /\ activeTab = "all" /\ ~isOpen
    /\ emitted = <<[name |-> "tab-changed", activeTab |-> "all"],
                   [name |-> "dropdown-closed"], [name |-> "search-cleared"]>>

\* C32 (as stated): a key press on the search input is processed once: ArrowDown or
\* ArrowUp moves selectedIndex by at most one position, and Enter emits at most one
\* result-selected
KeyPressProcessedOnce ==
    [][/\ \A key \in {"ArrowDown", "ArrowUp"}, tabLeaves \in BOOLEAN :
             KeyDown(key, "input", tabLeaves) =>
                 /\ selectedIndex' - selectedIndex <= 1
                 /\ selectedIndex - selectedIndex' <= 1
       /\ \A tabLeaves \in BOOLEAN :
             KeyDown("Enter", "input", tabLeaves) =>
                 Cardinality(Emitted("result-selected")') <= 1]_vars

\* the dropdown-opened and dropdown-closed events of a step, in order
DropdownEvents(events) ==
    SelectSeq(events, LAMBDA e : e.name \in {"dropdown-opened", "dropdown-closed"})

\* C36: dropdown-opened and dropdown-closed alternate, starting with
\* dropdown-opened: in every step the two events alternate, the first one is the
\* opposite of the state the dropdown was in, and isOpen changed exactly as often
\* as an event was emitted
DropdownEventsAlternate ==
    /\ (~isOpen /\ emitted = <<>>)
    /\ [][LET ev == DropdownEvents(emitted')
          IN  /\ \A i \in 1..Len(ev) :
                    ev[i].name = IF isOpen = (i % 2 = 1)
                                 THEN "dropdown-closed" ELSE "dropdown-opened"
              /\ isOpen' = IF Len(ev) % 2 = 0 THEN isOpen ELSE ~isOpen]_vars

\* C36 witness: a selection's delayed close closed the dropdown a search had opened
DelayedCloseAnnounced ==
    /\ lastOp = "closeFire"
    /\ ~isOpen
    /\ DropdownEvents(emitted) = <<[name |-> "dropdown-closed"]>>

\* C37 (as stated): a debounced search still pending when clear() is called never
\* runs afterwards: from clear() until the next input, search, focus or tab
\* operation the result list stays empty and the dropdown stays closed
ClearedStaysCleared ==
    sinceClear => (filteredResults = <<>> /\ ~isOpen)

\* C38 (as stated): the delayed close of a selection does not close the dropdown
\* when, since the selection, the dropdown was opened again or a new search was
\* performed
DelayedCloseSparesNewSession ==
    [][(lastOp' = "closeFire" /\ reopened /\ isOpen) => isOpen']_vars

\* C39 (as stated): a click on a tab other than the active one, while the input
\* holds a query of at least the minimum length, runs exactly one search: one
\* search-performed and one tab-changed are emitted, and the result list after the
\* click is the one that search installed
TabClickSearchesOnce ==
    [][\A tab \in Tabs :
          (/\ TabClick(tab)
           /\ tab # activeTab
           /\ Len(inputValue) > 0
           /\ Len(inputValue) >= config.minSearchLength)
          => /\ Len(probe') = 1
             /\ Cardinality(Emitted("search-performed")') = 1
             /\ Cardinality(Emitted("tab-changed")') = 1
             /\ Len(filteredResults') = probe'[1].installed]_vars

\* C34 (as stated): once the component is initialized the host's data-theme
\* attribute equals getTheme() and is "light" or "dark" in every state, and after
\* each setTheme call or theme attribute change both equal the theme requested
DataThemeEqualsGetTheme ==
    /\ [](phase = "ready" => (dataTheme = currentTheme /\ currentTheme \in Themes))
    /\ [][phase = "ready" =>
             \A theme \in Themes :
                 (SetTheme(theme) \/ SetAttribute("theme", theme)) =>
                     (currentTheme' = theme /\ dataTheme' = theme)]_vars

\* C35 (as stated): the theme persists across instances: a component created after
\* setTheme(t) (storage available) and initialized without a theme attribute starts
\* with getTheme() = t; a theme attribute takes priority over the stored theme; with
\* neither, the theme is "light"
ThemePersistsAcrossInstances ==
    [][LoadData(DataEmpty) =>
          /\ (requestedTheme.earlier /\ storageAvailable /\ themeAttribute = NullTheme)
                => currentTheme' = requestedTheme.theme
          /\ themeAttribute \in Themes => currentTheme' = themeAttribute
          /\ (themeAttribute = NullTheme /\ getStoredTheme(Cur) = NullTheme)
                => currentTheme' = DEFAULT_THEME]_vars

\* the data-loaded and data-load-error events of a step
LoadEvents(events) ==
    SelectSeq(events, LAMBDA e : e.name \in {"data-loaded", "data-load-error"})

FailedCalls == {i \in 1..retry.calls : ~retry.operation[i].ok}

\* what C40 says of a call of retry, but for the error it rejects with: at most
\* maxRetries + 1 invocations, the value of the first success and no attempt after
\* it, a wait of baseDelay * 2^k after the k-th failure that is followed by an
\* attempt, and a rejection only after maxRetries + 1 failures
RetryAttemptsAndDelays ==
    /\ retry.calls <= retry.maxRetries + 1
    /\ retry.status = "resolved" =>
          /\ retry.result = retry.operation[retry.calls]
          /\ retry.result.ok
          /\ FailedCalls = 1..(retry.calls - 1)
    /\ retry.status # "resolved" => FailedCalls = 1..retry.calls
    /\ Len(retry.delays) =
          (IF retry.status \in {"resolved", "rejected"} /\ retry.calls > 0
           THEN retry.calls - 1 ELSE retry.calls)
    /\ \A k \in 1..Len(retry.delays) : retry.delays[k] = retry.baseDelay * 2^(k - 1)
    /\ (retry.status = "rejected" /\ retry.maxRetries >= 0) =>
          retry.calls = retry.maxRetries + 1

\* C40 (as stated): retry invokes the operation at most maxRetries + 1 times,
\* returns the value of the first successful attempt without further attempts,
\* waits baseDelay * 2^k before the attempt that follows the k-th failure, and
\* after maxRetries + 1 failures rejects with the error of the last attempt
RetryRejectsWithLastError ==
    /\ RetryAttemptsAndDelays
    /\ (retry.status = "rejected" /\ retry.calls > 0) =>
          retry.result = retry.operation[retry.calls]

\* C40 (amended): retry invokes the operation at most maxRetries + 1 times, returns
\* the value of the first successful attempt without further attempts, waits
\* baseDelay * 2^k before the attempt that follows the k-th failure, and after
\* maxRetries + 1 failures rejects with the error of the last attempt, wrapped in
\* an Error when the attempt rejected with a value that is not one
RetryRejectsWithLastErrorAsError ==
    /\ RetryAttemptsAndDelays
    /\ (retry.status = "rejected" /\ retry.calls > 0) =>
          retry.result = AsError(retry.operation[retry.calls])

\* C40 witness: three attempts failed, with waits of 100 and 200 ms, and retry
\* rejected with the wrapped value of the third
RetryGaveUpAfterThreeAttempts ==
    /\ retry.status = "rejected"
    /\ retry.maxRetries = 2 /\ retry.calls = 3
    /\ retry.delays = <<100, 200>>
    /\ ~retry.operation[3].isError
    /\ retry.result = [ok |-> FALSE, isError |-> TRUE, value |-> "x"]

====
